---- MODULE Spec2Model ----
(***************************************************************************)
(* Model of the NetworkDashboard front end: the Dashboard component of     *)
(* frontend/src/app/page.tsx in its two variants (WebSocket push and REST  *)
(* polling) and the NetworkChart component that keeps the bounded series.  *)
(*                                                                         *)
(* JavaScript values are tagged records; numbers are modelled by integers. *)
(* React state variables hold the value most recently passed to their      *)
(* setter; a commit of the pending updates is the separate step Render.    *)
(***************************************************************************)
EXTENDS Integers, Sequences, FiniteSets, TLC

(***************************************************************************)
(* Bounds of the model.                                                    *)
(***************************************************************************)
MaxMessages == 2      \* WebSocket messages delivered in Spec
MaxStream == 22       \* snapshots delivered in SpecChart
MaxSkips == 2         \* snapshots replaced before a commit rendered them, in SpecChart
MaxAttempts == 3      \* calls of connectWebSocket
MaxCycles == 2        \* calls of fetchData
MaxPoints == 4        \* runs of the chart effect after which no tab is clicked, in SpecTabs
MaxAnomalies == 11    \* anomalies a message reports, in SpecHealth

(***************************************************************************)
(* Program constants.                                                      *)
(***************************************************************************)
SeriesCap == 20             \* NetworkChart.tsx: slice(-20)
ReconnectDelay == 5000      \* page.tsx: setTimeout(connectWebSocket, 5000)
PollInterval == 30000       \* page.tsx: setInterval(fetchData, 30000)
TicksPerSecond == 2         \* clock ticks of the model per second of wall clock

(***************************************************************************)
(* JavaScript values.                                                      *)
(***************************************************************************)
Undefined == [t |-> "undefined"]
JsNull == [t |-> "null"]
Num(n) == [t |-> "number", v |-> n]
Str(s) == [t |-> "string", v |-> s]
Arr(items) == [t |-> "array", items |-> items]

\* ToBoolean, as used by the operand of || and by if (...)
Truthy(x) ==
  CASE x.t = "undefined" -> FALSE
    [] x.t = "null" -> FALSE
    [] x.t = "number" -> x.v # 0
    [] x.t = "string" -> x.v # ""
    [] OTHER -> TRUE

\* a || b
OrElse(a, b) == IF Truthy(a) THEN a ELSE b

\* o.f for an own property f of an object; undefined for any other value that
\* is not null or undefined
Get(o, f) == IF o.t = "object" /\ f \in DOMAIN o THEN o[f] ELSE Undefined

\* o.f throws a TypeError
Throws(o) == o.t \in {"undefined", "null"}

\* new Date().toISOString() and new Date().toLocaleTimeString() at clock tick t:
\* the first keeps the instant, the second has a resolution of one second
ToISOString(t) == [t |-> "string", v |-> "iso", at |-> t]
ToLocaleTimeString(t) == [t |-> "string", v |-> "time", at |-> t \div TicksPerSecond]

\* a number that is not a number
NaN == [t |-> "NaN"]

\* ToNumber of a primitive, as - and * apply it to their operands
ToNumber(x) ==
  CASE x.t = "number" -> x
    [] x.t = "null" -> Num(0)
    [] x.t = "string" /\ x.v = "" -> Num(0)
    [] OTHER -> NaN

\* a - b, a * b and Math.max(a, b)
Minus(a, b) ==
  IF ToNumber(a).t = "number" /\ ToNumber(b).t = "number"
  THEN Num(ToNumber(a).v - ToNumber(b).v) ELSE NaN
Times(a, b) ==
  IF ToNumber(a).t = "number" /\ ToNumber(b).t = "number"
  THEN Num(ToNumber(a).v * ToNumber(b).v) ELSE NaN
MathMax(a, b) ==
  IF ToNumber(a).t = "number" /\ ToNumber(b).t = "number"
  THEN (IF ToNumber(a).v >= ToNumber(b).v THEN ToNumber(a) ELSE ToNumber(b)) ELSE NaN

\* a + b: numeric addition of two numbers, string concatenation (kept opaque)
\* when an operand is a string
Plus(a, b) ==
  IF a.t = "number" /\ b.t = "number" THEN Num(a.v + b.v)
  ELSE IF a.t = "string" \/ b.t = "string" THEN [t |-> "string", v |-> "concat", l |-> a, r |-> b]
  ELSE NaN

(***************************************************************************)
(* Payloads of the snapshot source.                                        *)
(***************************************************************************)
Bandwidth(up, down, ts) ==
  [t |-> "object", upload |-> up, download |-> down, timestamp |-> ts]
Metrics(bw, lat, pl) ==
  [t |-> "object", bandwidth |-> bw, latency |-> lat, packet_loss |-> pl]
EmptyObject == [t |-> "object"]

\* the body of a WebSocket message: text that JSON.parse rejects, or the value
\* it parses to
InvalidJson == [json |-> "invalid"]
Parsed(data) == [json |-> "ok", data |-> data]

\* the two snapshots of the end-to-end scenario, an object without any field,
\* the JSON text null and a body that is not JSON
SnapshotA ==
  [t |-> "object",
   metrics |-> Metrics(Bandwidth(Num(20), Num(50), Str("t1")), Num(15), Num(1)),
   devices |-> Arr(<<"laptop-001">>),
   alerts |-> Arr(<<"alert-1">>),
   protocols |-> [t |-> "object", top_protocols |-> Arr(<<"TCP">>)],
   ports |-> [t |-> "object", top_source_ports |-> Arr(<<"443">>),
              suspicious_activity |-> Arr(<<>>)],
   advanced_devices |-> Arr(<<"router-1">>),
   topology |-> [t |-> "object", nodes |-> Arr(<<"gateway">>),
                 topology_type |-> Str("mesh")],
   anomalies |-> [t |-> "object", anomalies |-> Arr(<<"spike">>),
                  total_anomalies |-> Num(1), recommendations |-> Arr(<<"check">>)]]
SnapshotB ==
  [t |-> "object",
   metrics |-> Metrics(Bandwidth(Num(25), Num(60), Str("t2")), Num(18), Num(0)),
   devices |-> Arr(<<"laptop-001", "phone-003">>),
   alerts |-> Arr(<<>>)]

\* bodies that parse but are not well-formed snapshots: the latency is a
\* string, the bandwidth is missing, the bandwidth lacks its upload rate
LatencyString ==
  [t |-> "object",
   metrics |-> Metrics(Bandwidth(Num(20), Num(50), Str("t3")), Str("fast"), Num(0))]
NoBandwidth ==
  [t |-> "object",
   metrics |-> [t |-> "object", latency |-> Num(15), packet_loss |-> Num(1)]]
PartialBandwidth ==
  [t |-> "object",
   metrics |-> [t |-> "object",
                bandwidth |-> [t |-> "object", download |-> Num(50)],
                latency |-> Num(15)]]

Messages ==
  {Parsed(SnapshotA), Parsed(SnapshotB), Parsed(EmptyObject), Parsed(JsNull),
   InvalidJson, Parsed(LatencyString), Parsed(NoBandwidth), Parsed(PartialBandwidth)}

\* a snapshot that reports n anomalies, or whose anomalies give no count
\* when n is -1
AnomalySnapshot(n) ==
  [t |-> "object",
   metrics |-> Metrics(Bandwidth(Num(20), Num(50), Str("t1")), Num(15), Num(1)),
   devices |-> Arr(<<>>),
   alerts |-> Arr(<<>>),
   anomalies |-> IF n = -1
                 THEN [t |-> "object", anomalies |-> Arr(<<>>)]
                 ELSE [t |-> "object", anomalies |-> Arr(<<>>),
                       total_anomalies |-> Num(n)]]

\* the n-th snapshot of a stream whose values identify the snapshot
StreamSnapshot(n) ==
  [t |-> "object",
   metrics |-> Metrics(Bandwidth(Num(100 + n), Num(200 + n), Str("t")), Num(n), Num(0)),
   devices |-> Arr(<<>>),
   alerts |-> Arr(<<>>)]

(***************************************************************************)
(* State.                                                                  *)
(***************************************************************************)
VARIABLES
  variant,           \* "ws" or "poll": which Dashboard of page.tsx is mounted
  networkData,       \* useState(null): JsNull or the latest snapshot
  connected,         \* useState(false)
  activeTab,         \* useState('overview')
  ws,                \* useState(null): 0 or the socket last passed to setWs
  websocket,         \* let websocket = null: 0 or the index of a socket
  sockets,           \* state of every WebSocket created, by creation order
  reconnectTimeout,  \* let reconnectTimeout: "undefined", "pending" or "stale"
  timers,            \* delays of the pending setTimeout timers, oldest first
  attempts,          \* calls of connectWebSocket so far
  tornDown,          \* the cleanup of the effect has run
  cycles,            \* the fetchData calls in flight, oldest first
  interval,          \* "none", "active" or "cleared": the setInterval timer
  started,           \* calls of fetchData so far
  now,               \* wall clock, in ticks: one tick per snapshot arrival
  needsRender,       \* a state setter ran since the last commit
  dataChanged,       \* setNetworkData ran since the last commit
  chartData,         \* NetworkChart: mounted flag and its useState value
  consumed,          \* history: the data props the chart effect has run for,
                     \* over all the mounts of the chart
  last               \* history: the handler that ran last

vars ==
  <<variant, networkData, connected, activeTab, ws, websocket, sockets,
    reconnectTimeout, timers, attempts, tornDown, cycles, interval, started,
    now, needsRender, dataChanged, chartData, consumed, last>>

wsVars == <<ws, websocket, sockets, reconnectTimeout, timers, attempts>>
pollVars == <<cycles, interval, started>>
chartVars == <<chartData, consumed>>

\* the tab ids of the navigation bar of each variant
TabsWs == {"overview", "protocols", "ports", "devices", "ai", "topology", "about"}
TabsPoll == {"overview", "protocols", "ports", "devices", "ai", "topology"}
Tabs == IF variant = "ws" THEN TabsWs ELSE TabsPoll

(***************************************************************************)
(* WebSocket variant: onmessage.                                           *)
(***************************************************************************)
\* JSON.parse(event.data) or one of the property reads of the handler throws
MessageThrows(m) == m.json = "invalid" \/ Throws(m.data)

\* a device list that keeps the devices of the previous snapshot
DevicesMerged(data) ==
  LET new == OrElse(Get(data, "devices"), Arr(<<>>))
  IN IF networkData.t = "object" /\ new.t = "array" /\ networkData.devices.t = "array"
     THEN Arr(networkData.devices.items \o new.items)
     ELSE new

\* devices: data.devices || []
DevicesOf(data) == OrElse(Get(data, "devices"), Arr(<<>>))

\* the topology without any node that stands in for a missing one
EmptyTopology ==
  [t |-> "object", nodes |-> Arr(<<>>),
   topology_type |-> Str("star"),
   network_segments |-> Arr(<<>>),
   connection_quality |->
     [t |-> "object", excellent |-> Num(0), good |-> Num(0),
      poor |-> Num(0), offline |-> Num(0)]]

\* a topology that is completed with the fields of the empty one
TopologyCompleted(data) ==
  LET sent == Get(data, "topology")
  IN IF ~Truthy(sent) \/ sent.t # "object" THEN EmptyTopology
     ELSE [f \in DOMAIN EmptyTopology |->
             IF f \in DOMAIN sent THEN sent[f] ELSE EmptyTopology[f]]

\* topology: data.topology || {nodes: [], topology_type: 'star', ...}
TopologyOf(data) == OrElse(Get(data, "topology"), EmptyTopology)

\* the object passed to setNetworkData for the parsed body data at clock t
TransformMessage(data, t) ==
  LET metrics == OrElse(Get(data, "metrics"), EmptyObject)
      bandwidth == OrElse(Get(metrics, "bandwidth"),
                          Bandwidth(Num(0), Num(0), ToISOString(t)))
      anomalies == Get(data, "anomalies")
      \* data.anomalies?.f
      opt(f) == IF Throws(anomalies) THEN Undefined ELSE Get(anomalies, f)
  IN [t |-> "object",
      bandwidth |-> bandwidth,
      latency |-> OrElse(Get(metrics, "latency"), Num(0)),
      packetLoss |-> OrElse(Get(metrics, "packet_loss"), Num(0)),
      devices |-> DevicesOf(data),
      alerts |-> OrElse(Get(data, "alerts"), Arr(<<>>)),
      protocols |-> OrElse(Get(data, "protocols"),
                           [t |-> "object", top_protocols |-> Arr(<<>>)]),
      ports |-> OrElse(Get(data, "ports"),
                       [t |-> "object", top_source_ports |-> Arr(<<>>),
                        suspicious_activity |-> Arr(<<>>)]),
      advancedDevices |-> OrElse(Get(data, "advanced_devices"), Arr(<<>>)),
      topology |-> TopologyOf(data),
      aiInsights |->
        [t |-> "object",
         anomalies |-> OrElse(opt("anomalies"), Arr(<<>>)),
         predictions |-> Arr(<<>>),
         traffic_patterns |-> Arr(<<>>),
         security_threats |-> Arr(<<>>),
         network_health_score |->
           Minus(Num(100), Times(OrElse(opt("total_anomalies"), Num(0)), Num(10))),
         optimization_suggestions |-> OrElse(opt("recommendations"), Arr(<<>>)),
         \* Array.from({ length: 20 }, ...): 20 entries that differ in their
         \* timestamp only, the last one stamped with the current instant
         performance_trends |->
           [t |-> "array", length |-> 20, lastTimestamp |-> ToISOString(t),
            bandwidth |-> Plus(OrElse(Get(bandwidth, "download"), Num(0)),
                               OrElse(Get(bandwidth, "upload"), Num(0))),
            latency |-> OrElse(Get(metrics, "latency"), Num(0)),
            packet_loss |-> OrElse(Get(metrics, "packet_loss"), Num(0)),
            health_score |->
              MathMax(Num(70), Minus(Num(100), OrElse(Get(metrics, "latency"), Num(0))))]]]

\* no task is in the middle of its handlers: a failed connection fires its
\* error event and its close event in one task, so nothing runs between them
Idle == \A i \in DOMAIN sockets : sockets[i] # "errored"

\* a message handler whose catch block treats the failure as a lost connection
OnMessageDisconnects(i, m) ==
  /\ variant = "ws"
  /\ Idle
  /\ i \in DOMAIN sockets /\ sockets[i] = "open"
  /\ now' = now + 1
  /\ IF MessageThrows(m)
     THEN /\ connected' = FALSE
          /\ needsRender' = TRUE
          /\ UNCHANGED <<networkData, dataChanged>>
          /\ last' = [ev |-> "message", sock |-> i, msg |-> m, merged |-> FALSE,
                      wasConnected |-> connected, afterTeardown |-> tornDown]
     ELSE /\ networkData' = TransformMessage(m.data, now')
          /\ connected' = TRUE
          /\ needsRender' = TRUE
          /\ dataChanged' = TRUE
          /\ last' = [ev |-> "message", sock |-> i, msg |-> m, merged |-> TRUE,
                      wasConnected |-> connected, afterTeardown |-> tornDown]
  /\ UNCHANGED <<variant, activeTab, wsVars, tornDown, pollVars, chartVars>>

\* websocket.onmessage of socket i for the message body m
OnMessage(i, m) ==
  /\ variant = "ws"
  /\ Idle
  /\ i \in DOMAIN sockets /\ sockets[i] = "open"
  /\ now' = now + 1
  /\ IF MessageThrows(m)
     THEN \* catch: console.error only
          /\ UNCHANGED <<networkData, connected, needsRender, dataChanged>>
          /\ last' = [ev |-> "message", sock |-> i, msg |-> m, merged |-> FALSE,
                      wasConnected |-> connected, afterTeardown |-> tornDown]
     ELSE /\ networkData' = TransformMessage(m.data, now')
          /\ connected' = TRUE
          /\ needsRender' = TRUE
          /\ dataChanged' = TRUE
          /\ last' = [ev |-> "message", sock |-> i, msg |-> m, merged |-> TRUE,
                      wasConnected |-> connected, afterTeardown |-> tornDown]
  /\ UNCHANGED <<variant, activeTab, wsVars, tornDown, pollVars, chartVars>>

(***************************************************************************)
(* WebSocket variant: connection handling.                                 *)
(***************************************************************************)
\* websocket.onopen of socket i
OnOpen(i) ==
  /\ variant = "ws"
  /\ Idle
  /\ i \in DOMAIN sockets /\ sockets[i] = "connecting"
  /\ sockets' = [sockets EXCEPT ![i] = "open"]
  /\ connected' = TRUE
  /\ needsRender' = TRUE
  /\ last' = [ev |-> "open", sock |-> i, wasConnected |-> connected,
              afterTeardown |-> tornDown]
  /\ UNCHANGED <<variant, networkData, activeTab, ws, websocket,
                 reconnectTimeout, timers, attempts, tornDown, pollVars, now,
                 dataChanged, chartVars>>

\* an error handler that leaves the indicator as it is
OnErrorKeepsConnected(i) ==
  /\ variant = "ws"
  /\ Idle
  /\ i \in DOMAIN sockets /\ sockets[i] \in {"connecting", "open", "failing"}
  /\ sockets' = [sockets EXCEPT ![i] = "errored"]
  /\ connected' = connected
  /\ needsRender' = TRUE
  /\ last' = [ev |-> "error", sock |-> i, wasConnected |-> connected,
              afterTeardown |-> tornDown]
  /\ UNCHANGED <<variant, networkData, activeTab, ws, websocket,
                 reconnectTimeout, timers, attempts, tornDown, pollVars, now,
                 dataChanged, chartVars>>

\* an error handler that turns the indicator on
OnErrorSetsConnected(i) ==
  /\ variant = "ws"
  /\ Idle
  /\ i \in DOMAIN sockets /\ sockets[i] \in {"connecting", "open", "failing"}
  /\ sockets' = [sockets EXCEPT ![i] = "errored"]
  /\ connected' = TRUE
  /\ needsRender' = TRUE
  /\ last' = [ev |-> "error", sock |-> i, wasConnected |-> connected,
              afterTeardown |-> tornDown]
  /\ UNCHANGED <<variant, networkData, activeTab, ws, websocket,
                 reconnectTimeout, timers, attempts, tornDown, pollVars, now,
                 dataChanged, chartVars>>

\* websocket.onerror of socket i: the transport failed, or close() was called
\* before the connection was established; the close event follows in the
\* same task
OnError(i) ==
  /\ variant = "ws"
  /\ Idle
  /\ i \in DOMAIN sockets /\ sockets[i] \in {"connecting", "open", "failing"}
  /\ sockets' = [sockets EXCEPT ![i] = "errored"]
  /\ connected' = FALSE
  /\ needsRender' = TRUE
  /\ last' = [ev |-> "error", sock |-> i, wasConnected |-> connected,
              afterTeardown |-> tornDown]
  /\ UNCHANGED <<variant, networkData, activeTab, ws, websocket,
                 reconnectTimeout, timers, attempts, tornDown, pollVars, now,
                 dataChanged, chartVars>>

\* a close handler that schedules no reconnect
OnCloseNoRetry(i) ==
  /\ variant = "ws"
  /\ i \in DOMAIN sockets
  /\ \/ sockets[i] = "errored"
     \/ Idle /\ sockets[i] \in {"open", "closing"}
  /\ sockets' = [sockets EXCEPT ![i] = "closed"]
  /\ connected' = FALSE
  /\ needsRender' = TRUE
  /\ last' = [ev |-> "close", sock |-> i, wasConnected |-> connected,
              afterTeardown |-> tornDown]
  /\ UNCHANGED <<variant, networkData, activeTab, ws, websocket, attempts,
                 reconnectTimeout, timers, tornDown, pollVars, now, dataChanged,
                 chartVars>>

\* a close handler that forgets the latest snapshot
OnCloseClearsData(i) ==
  /\ variant = "ws"
  /\ i \in DOMAIN sockets
  /\ \/ sockets[i] = "errored"
     \/ Idle /\ sockets[i] \in {"open", "closing"}
  /\ sockets' = [sockets EXCEPT ![i] = "closed"]
  /\ connected' = FALSE
  /\ networkData' = JsNull
  /\ dataChanged' = TRUE
  /\ timers' = Append(timers, ReconnectDelay)
  /\ reconnectTimeout' = "pending"
  /\ needsRender' = TRUE
  /\ last' = [ev |-> "close", sock |-> i, wasConnected |-> connected,
              afterTeardown |-> tornDown]
  /\ UNCHANGED <<variant, activeTab, ws, websocket, attempts,
                 tornDown, pollVars, now, chartVars>>

\* websocket.onclose of socket i: the second handler of the task of a failed
\* connection, or the peer closed the connection, or the closing that close()
\* began has finished
OnClose(i) ==
  /\ variant = "ws"
  /\ i \in DOMAIN sockets
  /\ \/ sockets[i] = "errored"
     \/ Idle /\ sockets[i] \in {"open", "closing"}
  /\ sockets' = [sockets EXCEPT ![i] = "closed"]
  /\ connected' = FALSE
  /\ timers' = Append(timers, ReconnectDelay)
  /\ reconnectTimeout' = "pending"
  /\ needsRender' = TRUE
  /\ last' = [ev |-> "close", sock |-> i, wasConnected |-> connected,
              afterTeardown |-> tornDown]
  /\ UNCHANGED <<variant, networkData, activeTab, ws, websocket, attempts,
                 tornDown, pollVars, now, dataChanged, chartVars>>

\* a connectWebSocket whose catch block gives up
connectWebSocketGivesUp(throws, tm, rt) ==
  /\ attempts' = attempts + 1
  /\ IF throws
     THEN /\ timers' = tm
          /\ reconnectTimeout' = rt
          /\ UNCHANGED <<sockets, websocket, ws, needsRender>>
     ELSE /\ sockets' = Append(sockets, "connecting")
          /\ websocket' = Len(sockets) + 1
          /\ ws' = Len(sockets) + 1
          /\ needsRender' = TRUE
          /\ timers' = tm
          /\ reconnectTimeout' = rt

\* connectWebSocket, with the pending timers tm and the handle rt it starts
\* from; throws: new WebSocket(...) throws
connectWebSocket(throws, tm, rt) ==
  /\ attempts' = attempts + 1
  /\ IF throws
     THEN /\ timers' = Append(tm, ReconnectDelay)
          /\ reconnectTimeout' = "pending"
          /\ UNCHANGED <<sockets, websocket, ws, needsRender>>
     ELSE /\ sockets' = Append(sockets, "connecting")
          /\ websocket' = Len(sockets) + 1
          /\ ws' = Len(sockets) + 1
          /\ needsRender' = TRUE
          /\ timers' = tm
          /\ reconnectTimeout' = rt

\* the pending timers without the k-th
RemoveAt(tm, k) == [j \in 1..(Len(tm) - 1) |-> IF j < k THEN tm[j] ELSE tm[j + 1]]

\* a timer that stays pending after it has called connectWebSocket, as one
\* started with setInterval would
TimerFireRepeats(k) ==
  /\ variant = "ws"
  /\ Idle
  /\ k \in DOMAIN timers
  /\ attempts < MaxAttempts
  /\ \E throws \in BOOLEAN :
       /\ connectWebSocket(throws, timers, reconnectTimeout)
       /\ last' = [ev |-> "timer", delay |-> timers[k], threw |-> throws,
                   wasConnected |-> connected, afterTeardown |-> tornDown]
  /\ UNCHANGED <<variant, networkData, connected, activeTab, tornDown, pollVars,
                 now, dataChanged, chartVars>>

\* the k-th pending timer expires and calls connectWebSocket
TimerFire(k) ==
  /\ variant = "ws"
  /\ Idle
  /\ k \in DOMAIN timers
  /\ attempts < MaxAttempts
  /\ \E throws \in BOOLEAN :
       /\ connectWebSocket(throws, RemoveAt(timers, k),
            IF k = Len(timers) /\ reconnectTimeout = "pending"
            THEN "stale" ELSE reconnectTimeout)
       /\ last' = [ev |-> "timer", delay |-> timers[k], threw |-> throws,
                   wasConnected |-> connected, afterTeardown |-> tornDown]
  /\ UNCHANGED <<variant, networkData, connected, activeTab, tornDown, pollVars,
                 now, dataChanged, chartVars>>

\* websocket.close() for a socket in readyState st
CloseCall(st) ==
  CASE st = "connecting" -> "failing"
    [] st = "open" -> "closing"
    [] OTHER -> st

\* the cleanup function the effect of the WebSocket variant returns
\* the body of that cleanup function: clearTimeout(reconnectTimeout) and
\* websocket.close()
CleanupWsBody ==
  /\ tornDown' = TRUE
  /\ IF reconnectTimeout = "pending"
     THEN /\ timers' = SubSeq(timers, 1, Len(timers) - 1)
          /\ reconnectTimeout' = "stale"
     ELSE UNCHANGED <<timers, reconnectTimeout>>
  /\ IF websocket # 0
     THEN sockets' = [sockets EXCEPT ![websocket] = CloseCall(sockets[websocket])]
     ELSE UNCHANGED sockets

CleanupWs ==
  /\ variant = "ws"
  /\ Idle
  /\ ~tornDown
  /\ CleanupWsBody
  /\ last' = [ev |-> "cleanup", wasConnected |-> connected, afterTeardown |-> FALSE]
  /\ UNCHANGED <<variant, networkData, connected, activeTab, ws, websocket,
                 attempts, pollVars, now, needsRender, dataChanged, chartVars>>

(***************************************************************************)
(* Polling variant.                                                        *)
(***************************************************************************)
\* the requests of one fetchData call, in the order they are awaited
Endpoints ==
  <<"/api/network/current", "/api/devices", "/api/alerts", "/api/protocols",
    "/api/ports", "/api/devices/advanced", "/api/topology">>

\* the body the server answers request k of the g-th fetchData call with:
\* every request gets a body of its own
Response(k, g) ==
  CASE k = 1 -> [t |-> "object",
                 bandwidth |-> Bandwidth(Num(10 * g), Num(20 * g), ToISOString(g)),
                 latency |-> Num(10 + g),
                 packet_loss |-> Num(g)]
    [] k = 6 -> [t |-> "object", endpoint |-> Endpoints[k], call |-> g,
                 devices |-> [t |-> "array", endpoint |-> Endpoints[k], call |-> g]]
    [] OTHER -> [t |-> "array", endpoint |-> Endpoints[k], call |-> g]

\* draws of Math.random(), in hundredths
RandomDraws == {0, 99}

\* the object passed to setNetworkData after the seven responses got; r is the
\* draw of Math.random (one draw stands for all draws of the call)
PollData(got, t, r) ==
  [t |-> "object",
   bandwidth |-> Get(got[1], "bandwidth"),
   latency |-> Get(got[1], "latency"),
   packetLoss |-> Get(got[1], "packet_loss"),
   devices |-> got[2],
   alerts |-> got[3],
   protocols |-> got[4],
   ports |-> got[5],
   advancedDevices |-> OrElse(Get(got[6], "devices"), OrElse(got[6], Arr(<<>>))),
   aiInsights |->
     [t |-> "object",
      anomalies |-> Arr(<<>>),
      predictions |-> Arr(<<>>),
      traffic_patterns |-> Arr(<<>>),
      security_threats |-> Arr(<<>>),
      network_health_score |-> Num((r * 30) \div 100 + 70),
      optimization_suggestions |-> Arr(<<"bandwidth", "devices", "segmentation">>),
      performance_trends |->
        [t |-> "array", length |-> 20, lastTimestamp |-> ToISOString(t),
         bandwidth |-> Num(r), latency |-> Num(r \div 2 + 10),
         packet_loss |-> Num((r * 2) \div 100),
         health_score |-> Num((r * 30) \div 100 + 70)]],
   topology |-> got[7]]

\* the mock data the catch block of fetchData passes to setNetworkData
FallbackData(t, r) ==
  [t |-> "object",
   bandwidth |-> Bandwidth(Num(r), Num(r), ToISOString(t)),
   latency |-> Num(r \div 2 + 10),
   packetLoss |-> Num((r * 2) \div 100),
   devices |-> Arr(<<"laptop-001", "desktop-002", "phone-003">>),
   alerts |-> Arr(<<"High latency detected">>),
   protocols |-> [t |-> "object", mock |-> "protocols"],
   ports |-> [t |-> "object", mock |-> "ports"],
   advancedDevices |-> Arr(<<"laptop-001">>),
   aiInsights |->
     [t |-> "object",
      anomalies |-> Arr(<<>>),
      predictions |-> Arr(<<>>),
      traffic_patterns |-> Arr(<<>>),
      security_threats |-> Arr(<<>>),
      network_health_score |-> Num(85),
      optimization_suggestions |-> Arr(<<"bandwidth", "devices">>),
      performance_trends |->
        [t |-> "array", length |-> 20, lastTimestamp |-> ToISOString(t),
         bandwidth |-> Num(r), latency |-> Num(r \div 2 + 10),
         packet_loss |-> Num((r * 2) \div 100),
         health_score |-> Num((r * 30) \div 100 + 70)]],
   topology |-> [t |-> "object", mock |-> "topology"]]

\* a fetchData call that has just started: it awaits its first request
NewCycle(n) == [n |-> n, got |-> <<>>]

\* the fetchData calls in flight without the c-th
DropCycle(cs, c) == [j \in 1..(Len(cs) - 1) |-> IF j < c THEN cs[j] ELSE cs[j + 1]]

\* an end of the try block that leaves the indicator as it is
FinishCycleKeepsConnected(c, got) ==
  /\ cycles' = DropCycle(cycles, c)
  /\ now' = now + 1
  /\ \E r \in RandomDraws : networkData' = PollData(got, now', r)
  /\ connected' = connected
  /\ needsRender' = TRUE
  /\ dataChanged' = TRUE
  /\ last' = [ev |-> "pollDone", cycle |-> cycles[c].n, got |-> got,
              wasConnected |-> connected, afterTeardown |-> tornDown]

\* the end of the try block of the c-th call in flight, whose seven
\* responses are got: the insights are made up, the snapshot is stored and
\* the indicator is turned on
FinishCycle(c, got) ==
  /\ cycles' = DropCycle(cycles, c)
  /\ now' = now + 1
  /\ \E r \in RandomDraws : networkData' = PollData(got, now', r)
  /\ connected' = TRUE
  /\ needsRender' = TRUE
  /\ dataChanged' = TRUE
  /\ last' = [ev |-> "pollDone", cycle |-> cycles[c].n, got |-> got,
              wasConnected |-> connected, afterTeardown |-> tornDown]

\* the request the c-th call in flight awaits resolves and its body parses:
\* the call goes on to its next request or, after the seventh, to the end of
\* its try block
PollResolve(c) ==
  /\ variant = "poll"
  /\ c \in DOMAIN cycles
  /\ LET cy == cycles[c]
         got == Append(cy.got, Response(Len(cy.got) + 1, cy.n))
     IN IF Len(got) < Len(Endpoints)
        THEN /\ cycles' = [cycles EXCEPT ![c] = [cy EXCEPT !.got = got]]
             /\ last' = [ev |-> "response", cycle |-> cy.n,
                         wasConnected |-> connected, afterTeardown |-> tornDown]
             /\ UNCHANGED <<networkData, connected, now, needsRender,
                            dataChanged>>
        ELSE FinishCycle(c, got)
  /\ UNCHANGED <<variant, activeTab, wsVars, tornDown, interval, started,
                 chartVars>>

\* a catch block that keeps the device list the failed call had fetched
PollRejectKeepsPartial(c) ==
  /\ variant = "poll"
  /\ c \in DOMAIN cycles
  /\ cycles' = DropCycle(cycles, c)
  /\ now' = now + 1
  /\ \E r \in RandomDraws :
       networkData' = [FallbackData(now', r) EXCEPT
                         !.devices = IF Len(cycles[c].got) >= 2
                                     THEN cycles[c].got[2] ELSE @]
  /\ connected' = TRUE
  /\ needsRender' = TRUE
  /\ dataChanged' = TRUE
  /\ last' = [ev |-> "pollFailed", cycle |-> cycles[c].n, got |-> cycles[c].got,
              wasConnected |-> connected, afterTeardown |-> tornDown]
  /\ UNCHANGED <<variant, activeTab, wsVars, tornDown, interval, started,
                 chartVars>>

\* a catch block that turns the indicator off
PollRejectDisconnects(c) ==
  /\ variant = "poll"
  /\ c \in DOMAIN cycles
  /\ cycles' = DropCycle(cycles, c)
  /\ now' = now + 1
  /\ \E r \in RandomDraws : networkData' = FallbackData(now', r)
  /\ connected' = FALSE
  /\ needsRender' = TRUE
  /\ dataChanged' = TRUE
  /\ last' = [ev |-> "pollFailed", cycle |-> cycles[c].n, got |-> cycles[c].got,
              wasConnected |-> connected, afterTeardown |-> tornDown]
  /\ UNCHANGED <<variant, activeTab, wsVars, tornDown, interval, started,
                 chartVars>>

\* a catch block that keeps the latest snapshot
PollRejectKeepsData(c) ==
  /\ variant = "poll"
  /\ c \in DOMAIN cycles
  /\ cycles' = DropCycle(cycles, c)
  /\ now' = now + 1
  /\ connected' = TRUE
  /\ needsRender' = TRUE
  /\ last' = [ev |-> "pollFailed", cycle |-> cycles[c].n, got |-> cycles[c].got,
              wasConnected |-> connected, afterTeardown |-> tornDown]
  /\ UNCHANGED <<variant, networkData, dataChanged, activeTab, wsVars, tornDown,
                 interval, started, chartVars>>

\* the request the c-th call in flight awaits rejects, or its body does not
\* parse: the catch block runs
PollReject(c) ==
  /\ variant = "poll"
  /\ c \in DOMAIN cycles
  /\ cycles' = DropCycle(cycles, c)
  /\ now' = now + 1
  /\ \E r \in RandomDraws : networkData' = FallbackData(now', r)
  /\ connected' = TRUE
  /\ needsRender' = TRUE
  /\ dataChanged' = TRUE
  /\ last' = [ev |-> "pollFailed", cycle |-> cycles[c].n, got |-> cycles[c].got,
              wasConnected |-> connected, afterTeardown |-> tornDown]
  /\ UNCHANGED <<variant, activeTab, wsVars, tornDown, interval, started,
                 chartVars>>

\* an interval timer that starts no cycle while one is in flight
IntervalTickWaits ==
  /\ variant = "poll"
  /\ interval = "active"
  /\ cycles = <<>>
  /\ started < MaxCycles
  /\ started' = started + 1
  /\ cycles' = Append(cycles, NewCycle(started + 1))
  /\ last' = [ev |-> "tick", delay |-> PollInterval, wasConnected |-> connected,
              afterTeardown |-> tornDown]
  /\ UNCHANGED <<variant, networkData, connected, activeTab, wsVars, tornDown,
                 interval, now, needsRender, dataChanged, chartVars>>

\* the interval timer expires and calls fetchData
IntervalTick ==
  /\ variant = "poll"
  /\ interval = "active"
  /\ started < MaxCycles
  /\ started' = started + 1
  /\ cycles' = Append(cycles, NewCycle(started + 1))
  /\ last' = [ev |-> "tick", delay |-> PollInterval, wasConnected |-> connected,
              afterTeardown |-> tornDown]
  /\ UNCHANGED <<variant, networkData, connected, activeTab, wsVars, tornDown,
                 interval, now, needsRender, dataChanged, chartVars>>

\* the cleanup function the effect of the polling variant returns
CleanupPoll ==
  /\ variant = "poll"
  /\ ~tornDown
  /\ tornDown' = TRUE
  /\ interval' = "cleared"
  /\ last' = [ev |-> "cleanup", wasConnected |-> connected, afterTeardown |-> FALSE]
  /\ UNCHANGED <<variant, networkData, connected, activeTab, wsVars, cycles,
                 started, now, needsRender, dataChanged, chartVars>>

(***************************************************************************)
(* NetworkChart and the commit of pending state updates.                   *)
(***************************************************************************)
\* a slice that never drops a point
SliceNothing(a, n) == a

\* a slice that keeps the oldest n points: a.slice(0, n)
SliceFirst(a, n) == IF Len(a) <= n THEN a ELSE SubSeq(a, 1, n)

\* a.slice(-n)
SliceLast(a, n) == IF Len(a) <= n THEN a ELSE SubSeq(a, Len(a) - n + 1, Len(a))

\* useState of NetworkChart: no labels and three empty datasets
InitialChart == [mounted |-> FALSE, labels |-> <<>>, download |-> <<>>,
                 upload |-> <<>>, latency |-> <<>>]

\* an updater that keeps every latency
ChartEffectKeepsLatency(prev, data, t) ==
  [mounted |-> TRUE,
   labels |-> SliceLast(Append(prev.labels, ToLocaleTimeString(t)), SeriesCap),
   download |-> SliceLast(Append(prev.download, Get(Get(data, "bandwidth"), "download")),
                          SeriesCap),
   upload |-> SliceLast(Append(prev.upload, Get(Get(data, "bandwidth"), "upload")),
                        SeriesCap),
   latency |-> Append(prev.latency, Get(data, "latency"))]

\* the updater the effect of NetworkChart passes to setChartData, for the data
\* prop data at clock t
ChartEffect(prev, data, t) ==
  [mounted |-> TRUE,
   labels |-> SliceLast(Append(prev.labels, ToLocaleTimeString(t)), SeriesCap),
   download |-> SliceLast(Append(prev.download, Get(Get(data, "bandwidth"), "download")),
                          SeriesCap),
   upload |-> SliceLast(Append(prev.upload, Get(Get(data, "bandwidth"), "upload")),
                        SeriesCap),
   latency |-> SliceLast(Append(prev.latency, Get(data, "latency")), SeriesCap)]

\* overview panels that are rendered without a snapshot
ShowsChartWithoutData == activeTab = "overview"

\* the overview panels, the chart among them, are rendered
ShowsChart == Truthy(networkData) /\ activeTab = "overview"

\* x.toFixed(n) throws a TypeError unless x is a number
ToFixedThrows(x) == x.t \notin {"number", "NaN"}

\* NetworkStats throws while it renders data: it calls toFixed on the two
\* bandwidth rates, the latency and the packet loss
NetworkStatsThrows(data) ==
  \/ Throws(Get(data, "bandwidth"))
  \/ ToFixedThrows(Get(Get(data, "bandwidth"), "download"))
  \/ ToFixedThrows(Get(Get(data, "bandwidth"), "upload"))
  \/ ToFixedThrows(Get(data, "latency"))
  \/ ToFixedThrows(Get(data, "packetLoss"))

\* what the main element of the Dashboard shows for the latest snapshot data
\* and the active tab tab: the placeholder, or the panels of the tab
View(data, tab) == IF Truthy(data) THEN tab ELSE "placeholder"

\* ProtocolInsights throws while it renders data: past its loading guard
\* (!data?.top_protocols) it reads data.traffic_breakdown.incoming_packets
ProtocolInsightsThrows(data) ==
  /\ Truthy(Get(data, "top_protocols"))
  /\ Throws(Get(data, "traffic_breakdown"))

\* PortInsights throws while it renders data: past its loading guard
\* (!data?.top_source_ports) it reads data.service_breakdown.web_traffic
PortInsightsThrows(data) ==
  /\ Truthy(Get(data, "top_source_ports"))
  /\ Throws(Get(data, "service_breakdown"))

\* rendering the Dashboard throws: the panel of the active tab does
RenderThrows ==
  /\ Truthy(networkData)
  /\ CASE activeTab = "overview" -> NetworkStatsThrows(networkData)
       [] activeTab = "protocols" -> ProtocolInsightsThrows(Get(networkData, "protocols"))
       [] activeTab = "ports" -> PortInsightsThrows(Get(networkData, "ports"))
       [] OTHER -> FALSE

\* React commits the pending state updates: the chart is mounted or unmounted
\* as the new state demands, and its effect runs on mount and for every new
\* data prop.  A render that throws has no error boundary above it: React
\* unmounts the Dashboard, which runs the cleanup of its effect.
Render ==
  /\ Idle
  /\ needsRender
  /\ ~tornDown
  /\ needsRender' = FALSE
  /\ dataChanged' = FALSE
  /\ IF RenderThrows
     THEN /\ chartData' = InitialChart
          /\ UNCHANGED consumed
          /\ IF variant = "ws"
             THEN /\ CleanupWsBody
                  /\ UNCHANGED <<ws, websocket, attempts, pollVars>>
             ELSE /\ tornDown' = TRUE
                  /\ interval' = "cleared"
                  /\ UNCHANGED <<wsVars, cycles, started>>
          /\ last' = [ev |-> "renderError", wasConnected |-> connected,
                      afterTeardown |-> FALSE]
     ELSE /\ IF ~ShowsChart
             THEN /\ chartData' = InitialChart
                  /\ UNCHANGED consumed
             ELSE IF ~chartData.mounted \/ dataChanged
             THEN /\ chartData' = ChartEffect(chartData, networkData, now)
                  /\ consumed' = Append(consumed, [data |-> networkData, at |-> now])
             ELSE UNCHANGED <<chartData, consumed>>
          /\ last' = [ev |-> "render", wasConnected |-> connected,
                      afterTeardown |-> tornDown]
          /\ UNCHANGED <<wsVars, tornDown, pollVars>>
  /\ UNCHANGED <<variant, networkData, connected, activeTab, now>>

\* a navigation button that also marks the dashboard as disconnected
SelectTabDisconnects(tab) ==
  /\ Idle
  /\ tab \in Tabs
  /\ tab # activeTab
  /\ ~tornDown
  /\ activeTab' = tab
  /\ connected' = FALSE
  /\ needsRender' = TRUE
  /\ last' = [ev |-> "tab", from |-> activeTab, wasConnected |-> connected,
              afterTeardown |-> tornDown]
  /\ UNCHANGED <<variant, networkData, wsVars, tornDown, pollVars,
                 now, dataChanged, chartVars>>

\* onClick of the navigation button of tab
SelectTab(tab) ==
  /\ Idle
  /\ tab \in Tabs
  /\ tab # activeTab
  /\ ~tornDown
  /\ activeTab' = tab
  /\ needsRender' = TRUE
  /\ last' = [ev |-> "tab", from |-> activeTab, wasConnected |-> connected,
              afterTeardown |-> tornDown]
  /\ UNCHANGED <<variant, networkData, connected, wsVars, tornDown, pollVars,
                 now, dataChanged, chartVars>>

(***************************************************************************)
(* Initial states: the first render and the run of the mount effect.       *)
(***************************************************************************)
InitCommon ==
  /\ networkData = JsNull
  /\ connected = FALSE
  /\ activeTab = "overview"
  /\ tornDown = FALSE
  /\ now = 0
  /\ dataChanged = FALSE
  /\ chartData = InitialChart
  /\ consumed = <<>>

\* connectWebSocket() of the mount effect: the socket is created, or the
\* constructor throws and the retry is scheduled
InitWs ==
  /\ variant = "ws"
  /\ attempts = 1
  /\ \E throws \in BOOLEAN :
       /\ IF throws
          THEN /\ sockets = <<>> /\ websocket = 0 /\ ws = 0
               /\ timers = <<ReconnectDelay>> /\ reconnectTimeout = "pending"
               /\ needsRender = FALSE
          ELSE /\ sockets = <<"connecting">> /\ websocket = 1 /\ ws = 1
               /\ timers = <<>> /\ reconnectTimeout = "undefined"
               /\ needsRender = TRUE
       /\ last = [ev |-> "mount", threw |-> throws, wasConnected |-> FALSE,
                 afterTeardown |-> FALSE]
  /\ cycles = <<>> /\ interval = "none" /\ started = 0

\* fetchData() and setInterval(fetchData, 30000) of the mount effect
InitPoll ==
  /\ variant = "poll"
  /\ cycles = <<NewCycle(1)>> /\ interval = "active" /\ started = 1
  /\ sockets = <<>> /\ websocket = 0 /\ ws = 0
  /\ timers = <<>> /\ reconnectTimeout = "undefined" /\ attempts = 0
  /\ needsRender = FALSE
  /\ last = [ev |-> "mount", threw |-> FALSE, wasConnected |-> FALSE,
             afterTeardown |-> FALSE]

Init == InitCommon /\ (InitWs \/ InitPoll)

(***************************************************************************)
(* Specifications.                                                         *)
(***************************************************************************)
\* a WebSocket message arrives on some open socket
WsMessage ==
  /\ now < MaxMessages
  /\ \E i \in DOMAIN sockets : \E m \in Messages : OnMessage(i, m)
WsOpen == \E i \in DOMAIN sockets : OnOpen(i)
WsError == \E i \in DOMAIN sockets : OnError(i)
WsClose == \E i \in DOMAIN sockets : OnClose(i)
WsTimer == \E k \in DOMAIN timers : TimerFire(k)
PollResponse == \E c \in DOMAIN cycles : PollResolve(c)
PollFailure == \E c \in DOMAIN cycles : PollReject(c)
TabClick == \E tab \in TabsWs : SelectTab(tab)

Next ==
  \/ WsOpen
  \/ WsMessage
  \/ WsError
  \/ WsClose
  \/ WsTimer
  \/ CleanupWs
  \/ PollResponse
  \/ PollFailure
  \/ IntervalTick
  \/ CleanupPoll
  \/ Render

Spec == Init /\ [][Next]_vars

\* the stream of snapshots of a connection that stays up: the n-th message
\* carries StreamSnapshot(n)
InitStream == InitCommon /\ InitWs /\ websocket = 1

StreamMessage ==
  /\ now < MaxStream
  /\ dataChanged => now - Len(consumed) <= MaxSkips
  /\ \E i \in DOMAIN sockets : OnMessage(i, Parsed(StreamSnapshot(now + 1)))

NextStream ==
  \/ WsOpen
  \/ StreamMessage
  \/ Render

SpecChart == InitStream /\ [][NextStream]_vars

\* a connection that stays up while the user switches tabs: the n-th message
\* carries StreamSnapshot(n), and the tabs are clicked until the chart effect
\* has run MaxPoints times
InitTabs == InitCommon /\ InitWs /\ websocket = 1

TabsMessage ==
  /\ now < MaxMessages
  /\ \E i \in DOMAIN sockets : OnMessage(i, Parsed(StreamSnapshot(now + 1)))

TabsClick ==
  /\ Len(consumed) < MaxPoints
  /\ TabClick

NextTabs ==
  \/ WsOpen
  \/ TabsMessage
  \/ TabsClick
  \/ Render

SpecTabs == InitTabs /\ [][NextTabs]_vars

\* the polling variant on its own, with the interval timer of the event
\* loop expiring; a request may stay unanswered for ever
NextPoll ==
  \/ PollResponse
  \/ PollFailure
  \/ IntervalTick
  \/ CleanupPoll
  \/ Render

InitPolling == InitCommon /\ InitPoll

SpecPoll == InitPolling /\ [][NextPoll]_vars /\ WF_vars(IntervalTick)

\* a connection whose messages report any number of anomalies up to
\* MaxAnomalies, or none
InitHealth == InitCommon /\ InitWs /\ websocket = 1

HealthMessage ==
  /\ now < MaxMessages
  /\ \E i \in DOMAIN sockets : \E n \in -1..MaxAnomalies :
       OnMessage(i, Parsed(AnomalySnapshot(n)))

NextHealth ==
  \/ WsOpen
  \/ HealthMessage
  \/ Render

SpecHealth == InitHealth /\ [][NextHealth]_vars

\* the WebSocket variant with its user: the connection comes and goes,
\* snapshots and bodies that are not JSON arrive and the tabs are clicked
DashboardMessage ==
  /\ now < MaxMessages
  /\ \E i \in DOMAIN sockets : \E m \in {Parsed(SnapshotA), InvalidJson} : OnMessage(i, m)

NextDashboard ==
  \/ WsOpen
  \/ DashboardMessage
  \/ WsError
  \/ WsClose
  \/ WsTimer
  \/ TabsClick
  \/ Render

InitDashboard == InitCommon /\ InitWs

SpecDashboard == InitDashboard /\ [][NextDashboard]_vars

\* the WebSocket variant on its own, with the timers of the event loop
\* expiring: a pending timer is not postponed for ever
NextWs ==
  \/ WsOpen
  \/ WsMessage
  \/ WsError
  \/ WsClose
  \/ WsTimer
  \/ CleanupWs
  \/ Render

InitReconnect == InitCommon /\ InitWs

SpecReconnect == InitReconnect /\ [][NextWs]_vars /\ WF_vars(WsTimer)

(***************************************************************************)
(* Properties.                                                             *)
(***************************************************************************)
\* the point the chart effect derives from an entry of its history
PointDownload(c) == Get(Get(c.data, "bandwidth"), "download")
PointUpload(c) == Get(Get(c.data, "bandwidth"), "upload")
PointLatency(c) == Get(c.data, "latency")

\* C1: the labels and each of the three datasets of the chart never hold more
\* than 20 points
C1_SeriesBounded ==
  /\ Len(chartData.labels) <= 20
  /\ Len(chartData.download) <= 20
  /\ Len(chartData.upload) <= 20
  /\ Len(chartData.latency) <= 20

\* more than 20 snapshots have been merged and the series is full
C1_Witness ==
  /\ Len(consumed) > 20
  /\ Len(chartData.labels) = 20
  /\ Len(chartData.download) = 20

\* C2: once more than 20 snapshots have been merged into the series, the
\* series has length 20 and its i-th point is the point of the i-th of the
\* last 20 snapshots merged, in the order they were merged
C2_LastTwentyInOrder ==
  Len(consumed) > 20 =>
    /\ Len(chartData.labels) = 20
    /\ Len(chartData.download) = 20
    /\ Len(chartData.upload) = 20
    /\ Len(chartData.latency) = 20
    /\ \A i \in 1..20 :
         LET c == consumed[Len(consumed) - 20 + i]
         IN /\ chartData.labels[i] = ToLocaleTimeString(c.at)
            /\ chartData.download[i] = PointDownload(c)
            /\ chartData.upload[i] = PointUpload(c)
            /\ chartData.latency[i] = PointLatency(c)

\* exactly 21 snapshots have been merged: the point of the first is gone and
\* the point of the second is the head
C2_Witness ==
  /\ Len(consumed) = 21
  /\ chartData.download[1] = PointDownload(consumed[2])
  /\ chartData.download[1] # PointDownload(consumed[1])
  /\ \A i \in 1..Len(chartData.download) :
       chartData.download[i] # PointDownload(consumed[1])
  /\ chartData.download[20] = PointDownload(consumed[21])

\* a parsed message body that carries the five fields of a snapshot with the
\* types of the data model
IsSnapshot(data) ==
  /\ data.t = "object"
  /\ Get(data, "metrics").t = "object"
  /\ Get(Get(data, "metrics"), "bandwidth").t = "object"
  /\ Get(Get(data, "metrics"), "latency").t = "number"
  /\ Get(Get(data, "metrics"), "packet_loss").t = "number"
  /\ Get(data, "devices").t = "array"
  /\ Get(data, "alerts").t = "array"

\* C3: right after a snapshot has been merged, networkData holds the
\* bandwidth, latency, packet loss, device list and alert list of that
\* snapshot and of no other: of the message body in the WebSocket variant, of
\* the responses of the completed cycle in the polling variant
C3_LatestIsSnapshot ==
  /\ (last.ev = "message" /\ last.merged /\ IsSnapshot(last.msg.data)) =>
       /\ networkData.bandwidth = last.msg.data.metrics.bandwidth
       /\ networkData.latency = last.msg.data.metrics.latency
       /\ networkData.packetLoss = last.msg.data.metrics.packet_loss
       /\ networkData.devices = last.msg.data.devices
       /\ networkData.alerts = last.msg.data.alerts
  /\ last.ev = "pollDone" =>
       /\ networkData.bandwidth = last.got[1].bandwidth
       /\ networkData.latency = last.got[1].latency
       /\ networkData.packetLoss = last.got[1].packet_loss
       /\ networkData.devices = last.got[2]
       /\ networkData.alerts = last.got[3]

\* snapshot B has just been merged after snapshot A had been merged and shown
C3_Witness ==
  /\ last.ev = "message" /\ last.merged
  /\ last.msg = Parsed(SnapshotB)
  /\ Len(consumed) = 1
  /\ consumed[1].data.alerts = SnapshotA.alerts
  /\ networkData.alerts = Arr(<<>>)

\* C4: once the cleanup of the WebSocket effect has run, no reconnect timer is
\* pending and connectWebSocket is not called any more
C4_NoReconnectAfterTeardown ==
  (variant = "ws" /\ tornDown) =>
    /\ timers = <<>>
    /\ ~(last.ev = "timer" /\ last.afterTeardown)

\* C5: after the cleanup has run, no step changes connected or networkData
C5_QuietAfterTeardown ==
  [][tornDown => (connected' = connected /\ networkData' = networkData)]_vars

\* C6: whenever the close handler of a socket has run and the cleanup has
\* not, connectWebSocket is called again by a timer of 5000 ms unless the
\* cleanup runs first, whatever the number of attempts made before
C6_CloseLeadsToReconnect ==
  \A k \in 1..(MaxAttempts - 1) :
    (last.ev = "close" /\ ~tornDown /\ attempts = k)
      ~> (tornDown \/ (attempts = k + 1 /\ last.ev = "timer" /\ last.delay = 5000))

\* a timer has just made the last attempt the bound allows, after every
\* earlier attempt created a socket that closed
C6_Witness ==
  /\ last.ev = "timer" /\ last.delay = 5000 /\ ~last.threw
  /\ ~tornDown
  /\ attempts = MaxAttempts
  /\ Len(sockets) = MaxAttempts
  /\ \A i \in 1..(MaxAttempts - 1) : sockets[i] = "closed"
  /\ sockets[MaxAttempts] = "connecting"

\* C7: right after the error handler or the close handler of a socket has run
\* while connected was true, connected is false
C7_ErrorOrCloseDisconnects ==
  (last.ev \in {"error", "close"} /\ last.wasConnected) => ~connected

\* the error handler has just run on the open socket of a connected dashboard
C7_Witness ==
  /\ last.ev = "error" /\ last.wasConnected
  /\ ~last.afterTeardown
  /\ ~connected

C9_SnapshotConnects ==
  ((last.ev = "message" /\ last.merged) \/ last.ev = "pollDone") => connected

\* a first poll cycle has just succeeded on a dashboard that was not connected
C9_Witness ==
  /\ last.ev = "pollDone" /\ ~last.wasConnected
  /\ connected

\* the handler that ran last establishes the transport or receives a valid
\* snapshot
Establishes(l) ==
  \/ l.ev = "open"
  \/ l.ev = "message" /\ l.merged
  \/ l.ev = "pollDone"

C11_UnparsableDropped ==
  [][(last'.ev = "message" /\ last'.msg.json = "invalid") =>
       /\ ~last'.merged
       /\ connected' = connected
       /\ networkData' = networkData
       /\ chartData' = chartData
       /\ needsRender' = needsRender]_vars

\* a body that is not JSON has been handled while a snapshot was shown
C11_Witness ==
  /\ last.ev = "message"
  /\ last.msg = InvalidJson
  /\ connected
  /\ Truthy(networkData)
  /\ Len(chartData.labels) = 1

\* a body that parses to an object but is not a well-formed snapshot: its
\* latency is a string, or it has no bandwidth
Malformed(data) ==
  /\ data.t = "object"
  /\ \/ Get(Get(data, "metrics"), "latency").t = "string"
     \/ Get(Get(data, "metrics"), "bandwidth").t = "undefined"

\* C12: a message whose body parses but is malformed (the latency is a
\* string, or the bandwidth is missing) is not merged: handling it leaves the
\* latest snapshot and the series of the chart as they were, and neither the
\* handler nor the render that follows throws
C12_MalformedRejected ==
  [][/\ (last'.ev = "message" /\ last'.msg.json = "ok" /\ Malformed(last'.msg.data)) =>
          /\ ~last'.merged
          /\ networkData' = networkData
          /\ chartData' = chartData
     /\ last'.ev # "renderError"]_vars

\* C13: in the WebSocket variant an error event or a close event changes the
\* connection indicator only (the close event also schedules the retry): the
\* latest snapshot, the series of the chart and the active tab are as before
C13_ErrorCloseKeepData ==
  [][last'.ev \in {"error", "close"} =>
       /\ networkData' = networkData
       /\ chartData' = chartData
       /\ dataChanged' = dataChanged
       /\ activeTab' = activeTab]_vars

\* the connection has closed while a snapshot and its point were shown
C13_Witness ==
  /\ last.ev = "close"
  /\ last.wasConnected
  /\ ~connected
  /\ Truthy(networkData)
  /\ Len(chartData.labels) = 1

RetryScheduled ==
  /\ Len(timers) >= 1
  /\ timers[Len(timers)] = 5000
  /\ reconnectTimeout = "pending"

\* C15: right after a connection attempt has failed, the first as much as any
\* later one, the dashboard is disconnected and a retry is scheduled after
\* 5000 ms: the attempt failed because its socket closed, or because new
\* WebSocket threw; there is no state from which no retry follows
C15_FirstFailureRetries ==
  /\ last.ev = "close" => (~connected /\ RetryScheduled)
  /\ (last.ev = "mount" /\ last.threw) => (~connected /\ RetryScheduled)
  /\ (last.ev = "timer" /\ last.threw) => (connected = last.wasConnected /\ RetryScheduled)

\* the socket of the first attempt has closed without ever opening
C15_Witness ==
  /\ last.ev = "close" /\ last.sock = 1
  /\ attempts = 1
  /\ sockets = <<"closed">>
  /\ networkData = JsNull
  /\ ~tornDown
  /\ ~connected
  /\ timers = <<5000>>

\* C16: once the N-th snapshot of a connection has been merged and committed
\* on a dashboard that is mounted, for N up to 20, the series of the chart
\* holds N points
C16_LengthIsCount ==
  (now <= 20 /\ ~needsRender /\ ~tornDown) =>
    /\ Len(chartData.labels) = now
    /\ Len(chartData.latency) = now

\* C19: every snapshot merged into networkData makes the chart effect run
\* exactly once: never twice, and once when every update is committed, so
\* that as many points have been appended as snapshots have been merged
C19_ConsumedExactlyOnce ==
  \A n \in 1..now :
    LET points == {k \in DOMAIN consumed : PointLatency(consumed[k]) = Num(n)}
    IN /\ Cardinality(points) <= 1
       /\ (~needsRender /\ ~tornDown) => Cardinality(points) = 1

\* C17: until the first snapshot is merged networkData is null, and while it
\* is null the dashboard shows the placeholder whatever the active tab is: no
\* panel is rendered, the chart is not mounted and rendering does not throw
C17_PlaceholderBeforeFirstSnapshot ==
  /\ [](now = 0 => networkData = JsNull)
  /\ [][(networkData = JsNull /\ networkData' # JsNull) =>
          last'.ev \in {"message", "pollDone", "pollFailed"}]_vars
  /\ [](networkData = JsNull =>
          /\ View(networkData, activeTab) = "placeholder"
          /\ ~chartData.mounted
          /\ chartData.labels = <<>>
          /\ ~RenderThrows
          /\ last.ev # "renderError")

\* the placeholder has been rendered on a connected dashboard whose user has
\* left the overview tab before any snapshot arrived
C17_Witness ==
  /\ networkData = JsNull
  /\ connected
  /\ activeTab = "protocols"
  /\ last.ev = "render"
  /\ ~needsRender

\* C18: a message whose body parses to an object is merged whatever optional
\* field it omits: in networkData a latency, packet loss, upload rate or
\* download rate that the body lacks is 0, a device list or alert list that
\* it lacks is empty, and the packet_loss of the body is the packetLoss
C18_MissingFieldsDefaulted ==
  (last.ev = "message" /\ last.msg.json = "ok" /\ last.msg.data.t = "object") =>
    LET metrics == Get(last.msg.data, "metrics")
        bandwidth == Get(metrics, "bandwidth")
        absent(x) == x.t = "undefined"
    IN /\ last.merged
       /\ absent(Get(metrics, "latency")) => Get(networkData, "latency") = Num(0)
       /\ Get(networkData, "packetLoss")
            = (IF absent(Get(metrics, "packet_loss")) THEN Num(0)
               ELSE Get(metrics, "packet_loss"))
       /\ absent(Get(bandwidth, "upload")) =>
            Get(Get(networkData, "bandwidth"), "upload") = Num(0)
       /\ absent(Get(bandwidth, "download")) =>
            Get(Get(networkData, "bandwidth"), "download") = Num(0)
       /\ absent(Get(last.msg.data, "devices")) => Get(networkData, "devices") = Arr(<<>>)
       /\ absent(Get(last.msg.data, "alerts")) => Get(networkData, "alerts") = Arr(<<>>)

\* C20 as stated: right after a snapshot has been merged, the protocol
\* breakdown, the port table, the topology graph and the AI insights of
\* networkData are the payloads the source sent, where it sent them: the
\* fields of the message body in the WebSocket variant, the responses of the
\* cycle in the polling variant
C20_ExtensionsPassThrough ==
  /\ (last.ev = "message" /\ last.merged) =>
       LET data == last.msg.data
           sent(f) == Truthy(Get(data, f))
       IN /\ sent("protocols") => networkData.protocols = data.protocols
          /\ sent("ports") => networkData.ports = data.ports
          /\ sent("topology") => networkData.topology = data.topology
          /\ sent("anomalies") => networkData.aiInsights = data.anomalies
  /\ last.ev = "pollDone" =>
       /\ networkData.protocols = last.got[4]
       /\ networkData.ports = last.got[5]
       /\ networkData.topology = last.got[7]

\* C20 as amended: the protocol breakdown, the port table and the topology
\* graph are the payloads the source sent; the AI insights are not: in the
\* WebSocket variant they are built from the anomalies of the body (its
\* anomaly list, its recommendations, and a health score of 100 less 10 for
\* each anomaly), in the polling variant they hold nothing of any response
C20_ExtensionsPassThroughExceptAi ==
  /\ (last.ev = "message" /\ last.merged) =>
       LET data == last.msg.data
           sent(f) == Truthy(Get(data, f))
       IN /\ sent("protocols") => networkData.protocols = data.protocols
          /\ sent("ports") => networkData.ports = data.ports
          /\ sent("topology") => networkData.topology = data.topology
          /\ sent("anomalies") =>
               /\ networkData.aiInsights # data.anomalies
               /\ networkData.aiInsights.anomalies = data.anomalies.anomalies
               /\ networkData.aiInsights.optimization_suggestions
                    = data.anomalies.recommendations
               /\ networkData.aiInsights.network_health_score
                    = Num(100 - 10 * data.anomalies.total_anomalies.v)
  /\ last.ev = "pollDone" =>
       /\ networkData.protocols = last.got[4]
       /\ networkData.ports = last.got[5]
       /\ networkData.topology = last.got[7]
       /\ networkData.aiInsights.anomalies = Arr(<<>>)
       /\ \A k \in DOMAIN last.got : networkData.aiInsights # last.got[k]

\* the snapshot that carries every extension payload has just been merged
C20_Witness ==
  /\ last.ev = "message" /\ last.merged
  /\ last.msg = Parsed(SnapshotA)
  /\ networkData.topology.topology_type = Str("mesh")
  /\ networkData.ports.top_source_ports = Arr(<<"443">>)
  /\ networkData.aiInsights.network_health_score = Num(90)

\* C21: in the polling variant a cycle is in flight or done from the mount
\* on, and whatever became of the earlier cycles (done, failed, or waiting
\* for a response that never comes) the interval timer of 30000 ms starts
\* the next one unless the cleanup runs first, and starts none after it
C21_TickStartsCycle ==
  /\ [](started >= 1)
  /\ [][last'.ev = "tick" =>
          /\ ~tornDown
          /\ last'.delay = 30000
          /\ Len(cycles') = Len(cycles) + 1
          /\ cycles'[Len(cycles')].got = <<>>]_vars
  /\ \A k \in 1..(MaxCycles - 1) :
       (started = k /\ ~tornDown)
         ~> (tornDown \/ (started = k + 1 /\ last.ev = "tick"))

\* the interval timer has just started a cycle while the cycle of the mount
\* still waits for its first response
C21_Witness ==
  /\ last.ev = "tick"
  /\ ~tornDown
  /\ Len(cycles) >= 2
  /\ cycles[1].n = 1
  /\ cycles[1].got = <<>>

\* the sockets that have not closed
Unclosed == {i \in DOMAIN sockets : sockets[i] # "closed"}

\* C22: in the WebSocket variant, before the cleanup has run, at most one
\* socket has not closed, at most one reconnect timer is pending, and not
\* both; a timer is started only by a close handler or by a constructor that
\* throws, and a socket is created only by a timer that fires
C22_OneSocketOrOneTimer ==
  /\ [](~tornDown =>
          /\ Cardinality(Unclosed) <= 1
          /\ Len(timers) <= 1
          /\ Cardinality(Unclosed) + Len(timers) <= 1)
  /\ [][Len(timers') > Len(timers) =>
          (last'.ev = "close" \/ (last'.ev = "timer" /\ last'.threw))]_vars
  /\ [][Len(sockets') > Len(sockets) => (last'.ev = "timer" /\ ~last'.threw)]_vars

\* the second socket is open after the first has closed and its timer fired
C22_Witness ==
  /\ ~tornDown
  /\ Len(sockets) = 2
  /\ sockets[1] = "closed"
  /\ sockets[2] = "open"
  /\ timers = <<>>
  /\ connected

\* some field of data is a response of the n-th call of fetchData, and every
\* field that is fetched is a response of that call
FromCycle(data, n) ==
  \/ Get(data, "bandwidth") = Response(1, n).bandwidth
  \/ Get(data, "latency") = Response(1, n).latency
  \/ Get(data, "devices") = Response(2, n)
  \/ Get(data, "alerts") = Response(3, n)
  \/ Get(data, "protocols") = Response(4, n)
  \/ Get(data, "ports") = Response(5, n)
  \/ Get(data, "advancedDevices") = Response(6, n).devices
  \/ Get(data, "topology") = Response(7, n)
WholeCycle(data, n) ==
  /\ Get(data, "bandwidth") = Response(1, n).bandwidth
  /\ Get(data, "latency") = Response(1, n).latency
  /\ Get(data, "packetLoss") = Response(1, n).packet_loss
  /\ Get(data, "devices") = Response(2, n)
  /\ Get(data, "alerts") = Response(3, n)
  /\ Get(data, "protocols") = Response(4, n)
  /\ Get(data, "ports") = Response(5, n)
  /\ Get(data, "advancedDevices") = Response(6, n).devices
  /\ Get(data, "topology") = Response(7, n)

\* C23: in the polling variant networkData never mixes cycles: whatever it
\* holds of a call of fetchData it holds of all seven responses of that call;
\* right after a call has got its seven responses networkData is built from
\* them, and right after a call has failed networkData holds none of the
\* responses that call had got
C23_AllOrNothing ==
  /\ \A n \in 1..started : FromCycle(networkData, n) => WholeCycle(networkData, n)
  /\ last.ev = "pollDone" =>
       /\ Len(last.got) = 7
       /\ \A k \in 1..7 : last.got[k] = Response(k, last.cycle)
       /\ WholeCycle(networkData, last.cycle)
  /\ last.ev = "pollFailed" =>
       /\ Len(last.got) < 7
       /\ ~FromCycle(networkData, last.cycle)

\* a call has failed at its seventh request, after six responses
C23_Witness ==
  /\ last.ev = "pollFailed"
  /\ Len(last.got) = 6
  /\ last.got[2] = Response(2, last.cycle)
  /\ ~FromCycle(networkData, last.cycle)
  /\ Truthy(networkData)

\* C24: when calls of fetchData overlap, a call never ends after a call that
\* started later has ended: right after a call has ended (and has written
\* networkData), every call that started after it is still in flight, so
\* that the result of the later call is the one that stays
C24_NewerNotOverwritten ==
  last.ev \in {"pollDone", "pollFailed"} =>
    \A n \in (last.cycle + 1)..started :
      \E c \in DOMAIN cycles : cycles[c].n = n

\* C25: the labels and the three datasets of the chart have the same length,
\* and the label, the download rate, the upload rate and the latency at an
\* index are those of one run of the chart effect, for one snapshot
C25_ParallelSeries ==
  /\ Len(chartData.download) = Len(chartData.labels)
  /\ Len(chartData.upload) = Len(chartData.labels)
  /\ Len(chartData.latency) = Len(chartData.labels)
  /\ \A i \in DOMAIN chartData.labels :
       \E k \in DOMAIN consumed :
         /\ chartData.labels[i] = ToLocaleTimeString(consumed[k].at)
         /\ chartData.download[i] = PointDownload(consumed[k])
         /\ chartData.upload[i] = PointUpload(consumed[k])
         /\ chartData.latency[i] = PointLatency(consumed[k])

\* the series has been truncated twice and its ends are the points of the
\* third and of the last snapshot merged
C25_Witness ==
  /\ Len(consumed) = 22
  /\ Len(chartData.labels) = 20
  /\ chartData.latency[1] = PointLatency(consumed[3])
  /\ chartData.upload[1] = PointUpload(consumed[3])
  /\ chartData.latency[20] = PointLatency(consumed[22])
  /\ chartData.upload[20] = PointUpload(consumed[22])

\* C26: when the user comes back to the overview tab, the series shown holds
\* the points it held before the tab was left, and a point for every snapshot
\* that has arrived since the chart effect last ran
C26_SeriesSurvivesTabSwitch ==
  [][(/\ last'.ev = "render"
      /\ activeTab = "overview"
      /\ ~chartData.mounted /\ chartData'.mounted
      /\ consumed # <<>>) =>
       /\ \A k \in DOMAIN consumed :
            \E i \in DOMAIN chartData'.latency :
              chartData'.latency[i] = PointLatency(consumed[k])
       /\ \A n \in (PointLatency(consumed[Len(consumed)]).v + 1)..now :
            \E i \in DOMAIN chartData'.latency : chartData'.latency[i] = Num(n)]_vars

\* C27: once networkData holds a snapshot no step makes it null again, so
\* the panels of the active tab are rendered, never the placeholder
C27_NeverNullAgain ==
  /\ [][networkData # JsNull => networkData' # JsNull]_vars
  /\ [](networkData # JsNull =>
          (Truthy(networkData) /\ View(networkData, activeTab) = activeTab))

\* after a snapshot was merged the socket failed, the timer reconnected, the
\* user changed the tab and a body that is not JSON arrived
C27_Witness ==
  /\ Truthy(networkData)
  /\ Len(sockets) = 2
  /\ sockets[1] = "closed"
  /\ last.ev = "message" /\ last.msg = InvalidJson
  /\ activeTab = "topology"
  /\ ~tornDown

C29_HealthScoreInRange ==
  (/\ last.ev = "message" /\ last.merged
   /\ LET total == Get(Get(last.msg.data, "anomalies"), "total_anomalies")
      IN total.t = "undefined" \/ (total.t = "number" /\ total.v \in Nat)) =>
    LET score == networkData.aiInsights.network_health_score
    IN score.t = "number" /\ score.v >= 0 /\ score.v <= 100

====
